---- MODULE Spec2Model ----
(***************************************************************************)
(* Model of the API gateway of Microservicios-Arquitectura:                *)
(*   - the CircuitBreaker class and the per-target registry of             *)
(*     api-gateway/src/middleware/proxy.js,                                *)
(*   - the request path built by createProxyForRoute (same file),          *)
(*   - the token cache of api-gateway/src/middleware/auth.js,              *)
(*   - the middleware stack of api-gateway/src/index.js, the retry         *)
(*     middleware and the health router,                                   *)
(*   - the callbacks of one request in createSimpleProxy and               *)
(*     createCustomProxy,                                                  *)
(* of the auth service: login lockout, refresh tokens, registration, the   *)
(* administration endpoints and the refreshTokens array                    *)
(* (auth-service-microservice/src/models/User.js, routes/auth.js, user.js, *)
(* auth-service/src/middleware/auth.js), and of the WebSocket notification *)
(* server (unnamed/part_002).                                              *)
(* Node runs one callback at a time, so every action below is one          *)
(* callback run to its next await.                                         *)
(***************************************************************************)
EXTENDS Integers, Sequences, FiniteSets, TLC

VARIABLES
  now,              \* Date.now(), in ms since the process started
  breakers,         \* heap of CircuitBreaker instances, in allocation order
  circuitBreakers,  \* the Map target -> instance (0: no entry)
  routeBreaker,     \* per route: the instance captured by createProxyForRoute (0: not built)
  inflight,         \* per instance: calls awaiting fn(), by the branch they took
  ev,               \* what the last breaker step did
  upstreamFailures, \* per target: failed forwardings in a row seen by the proxy
  proxyEv,          \* what the last proxied request did
  tokenCache,       \* the Map token -> {user, timestamp} (timestamp Null: no entry)
  nextSweep,        \* when the setInterval sweep of the cache is next due
  pendingAuth,      \* requests awaiting validateTokenWithAuthService, by (token, roles)
  authEv,           \* what the last step of the auth middleware did
  gwEv,             \* what the gateway's middleware stack did with the last request
  retryEv,          \* what the last run of executeWithRetry did
  healthEv,         \* what the last health request answered
  users,            \* the auth service's User collection, by usuario
  authLimiter,      \* the rate limiter of POST /login: hits and end of the window
  pendingLogin,     \* logins awaiting comparePassword, each with the document it loaded
  pendingRegister,  \* registrations that passed the existence check, by (usuario, email)
  accessIat,        \* per user: when the latest access token was signed (Null: none)
  failed,           \* per user: wrong-password answers since the last successful login
  revoked,          \* refresh tokens taken off a stored list by a revoking request
  svcEv,            \* what the last request to the auth service did
  connectedClients, \* notification server: sockets connected
  deploymentHistory,\* notification server: the deployments kept
  accepted,         \* every deployment POST /notify-update accepted, in arrival order
  notifyEv,         \* what the last step of the notification server did
  refreshTokens,    \* one user's refreshTokens array: {token, expiresAt} in array order
  issued,           \* every refresh token signed for that user, in order of issue
  live,             \* those of them not revoked since they were issued
  tokenEv,          \* what the last request about that user's tokens did
  proxyCall         \* per request in createSimpleProxy / createCustomProxy: res and proxyReq

authVars == <<tokenCache, nextSweep, pendingAuth, authEv>>

gwVars == <<gwEv, retryEv, healthEv>>

svcVars == <<users, authLimiter, pendingLogin, pendingRegister, accessIat, failed,
             revoked, svcEv>>

notifyVars == <<connectedClients, deploymentHistory, accepted, notifyEv>>

tokenVars == <<refreshTokens, issued, live, tokenEv>>

extraVars == <<notifyVars, tokenVars, proxyCall>>

restVars == <<gwVars, svcVars, extraVars>>

vars == <<now, breakers, circuitBreakers, routeBreaker, inflight, ev,
          upstreamFailures, proxyEv, authVars, restVars>>

----------------------------------------------------------------------------
(* Program constants *)

Threshold == 5
ResetTimeout == 30000
Null == -1

(* Bounds of the model *)

MaxPeriods == 2
Jitter == 1
MaxInFlight == 3
MaxRegistryInFlight == 1
MaxFailureCount == 7
MaxPendingAuth == 1
MaxSweeps == 2

Targets == {"A", "B"}
Routes == {"r1", "r2", "r3"}

\* routeConfig.target: two routes may name the same upstream
RouteTarget(r) == IF r = "r3" THEN "B" ELSE "A"

\* the instants the model samples: around every multiple of p
TimePoints(p) == {k * p + j : k \in 0..MaxPeriods, j \in 0..Jitter}

----------------------------------------------------------------------------
(* class CircuitBreaker *)

NewCircuitBreaker ==
  [failureCount |-> 0, lastFailureTime |-> Null, state |-> "CLOSED"]

\* call(): Date.now() - this.lastFailureTime > this.resetTimeout
\* (ResetElapsed_Ge: the test with >=)
ResetElapsed_Ge(cb, t) == t - cb.lastFailureTime >= ResetTimeout
ResetElapsed(cb, t) == t - cb.lastFailureTime > ResetTimeout

\* call(), up to `await fn()`: the breaker afterwards, whether fn is invoked,
\* and whether this call made the OPEN -> HALF_OPEN transition
CallEnter(cb, t) ==
  IF cb.state = "OPEN"
  THEN IF ResetElapsed(cb, t)
       THEN [cb |-> [cb EXCEPT !.state = "HALF_OPEN"], invoked |-> TRUE, trial |-> TRUE]
       ELSE [cb |-> cb, invoked |-> FALSE, trial |-> FALSE]
  ELSE [cb |-> cb, invoked |-> TRUE, trial |-> FALSE]

\* onSuccess(); (onSuccess_KeepCount: the counter not reset)
onSuccess_KeepCount(cb) == [cb EXCEPT !.state = "CLOSED"]
onSuccess(cb) == [cb EXCEPT !.failureCount = 0, !.state = "CLOSED"]

\* onFailure(); (onFailure_Gt: opening one failure late; onFailure_KeepTime:
\* lastFailureTime not recorded)
onFailure_Gt(cb, t) ==
  LET n == cb.failureCount + 1
  IN [cb EXCEPT !.failureCount = n,
                !.lastFailureTime = t,
                !.state = IF n > Threshold THEN "OPEN" ELSE @]
onFailure_KeepTime(cb, t) ==
  LET n == cb.failureCount + 1
  IN [cb EXCEPT !.failureCount = n,
                !.state = IF n >= Threshold THEN "OPEN" ELSE @]
onFailure(cb, t) ==
  LET n == cb.failureCount + 1
  IN [cb EXCEPT !.failureCount = n,
                !.lastFailureTime = t,
                !.state = IF n >= Threshold THEN "OPEN" ELSE @]

----------------------------------------------------------------------------
(* the registry *)

\* (getCircuitBreaker_OneKey: the registry keyed alike for every target)
getCircuitBreaker_OneKey(t) ==
  IF \A u \in Targets : circuitBreakers[u] = 0
  THEN [heap |-> Append(breakers, NewCircuitBreaker),
        map |-> [u \in Targets |-> Len(breakers) + 1],
        ret |-> Len(breakers) + 1]
  ELSE [heap |-> breakers, map |-> circuitBreakers, ret |-> circuitBreakers[t]]
getCircuitBreaker(t) ==
  IF circuitBreakers[t] = 0
  THEN [heap |-> Append(breakers, NewCircuitBreaker),
        map |-> [circuitBreakers EXCEPT ![t] = Len(breakers) + 1],
        ret |-> Len(breakers) + 1]
  ELSE [heap |-> breakers, map |-> circuitBreakers, ret |-> circuitBreakers[t]]

----------------------------------------------------------------------------
(* api-gateway/src/middleware/auth.js: tokens, claims, the auth service *)

\* const CACHE_TTL = 5 * 60 * 1000
CACHE_TTL == 5 * 60 * 1000

\* bearer tokens a request may carry; "none": no Authorization bearer header
Tokens == {"good", "short", "forged"}
NoToken == "none"

\* the exp claim, in ms: "short" expires inside the horizon of the model
TokenExp(tok) == IF tok = "short" THEN 2 * CACHE_TTL ELSE (MaxSweeps + 2) * CACHE_TTL

\* the instants the model samples: each sweep's due time and the ms after it
SweepTimePoints == {k * CACHE_TTL + j : k \in 0..MaxSweeps, j \in {0, 1}}

\* jwt.verify(token, JWT_SECRET, {ignoreExpiration: false}) does not throw
JwtVerify(tok, t) == tok # "forged" /\ t < TokenExp(tok)

\* the error jwt.verify throws: the signature is checked before the exp claim
JwtVerifyError(tok, t) ==
  IF tok = "forged" THEN "JsonWebTokenError"
  ELSE IF t >= TokenExp(tok) THEN "TokenExpiredError"
  ELSE "none"

\* catch (jwtError): next(createError(401, 'Token invalido')), whatever the error
JwtErrorMessage(err) == "Token invalido"

NoUser == [tok |-> "none", src |-> "none", roles |-> {}]
\* the payload jwt.verify returns
Decoded(tok) ==
  [tok |-> tok, src |-> "decoded", roles |-> IF tok = "good" THEN {"admin"} ELSE {}]
\* response.data.user of the auth service
ServiceUser(tok) ==
  [tok |-> tok, src |-> "service", roles |-> IF tok = "good" THEN {"admin"} ELSE {}]

\* the options of the middleware instances: roles
RoleConfigs == {{}, {"admin"}}

\* how POST /validate-token may end: 200 with or without data.user, another
\* 2xx, 401, another error status, no response at all, the 5 s timeout
AuthAnswers == {"200user", "200nouser", "2xx", "401", "500", "network", "timeout"}

\* validateTokenWithAuthService: {valid, user}, or the error is thrown again
\* (ValidateTokenWithAuthService_AnyStatusInvalid: every error status taken as 401)
ValidateTokenWithAuthService_AnyStatusInvalid(tok, answer) ==
  CASE answer = "200user" -> [kind |-> "ok", valid |-> TRUE, user |-> ServiceUser(tok)]
    [] answer = "200nouser" -> [kind |-> "ok", valid |-> TRUE, user |-> NoUser]
    [] answer = "2xx" -> [kind |-> "ok", valid |-> FALSE, user |-> NoUser]
    [] answer \in {"401", "500"} -> [kind |-> "ok", valid |-> FALSE, user |-> NoUser]
    [] OTHER -> [kind |-> "throw", valid |-> FALSE, user |-> NoUser]
ValidateTokenWithAuthService(tok, answer) ==
  CASE answer = "200user" -> [kind |-> "ok", valid |-> TRUE, user |-> ServiceUser(tok)]
    [] answer = "200nouser" -> [kind |-> "ok", valid |-> TRUE, user |-> NoUser]
    [] answer = "2xx" -> [kind |-> "ok", valid |-> FALSE, user |-> NoUser]
    [] answer = "401" -> [kind |-> "ok", valid |-> FALSE, user |-> NoUser]
    [] OTHER -> [kind |-> "throw", valid |-> FALSE, user |-> NoUser]

\* hasRequiredRole(user, requiredRoles)
hasRequiredRole(user, requiredRoles) == \E role \in requiredRoles : role \in user.roles

NoEntry == [user |-> NoUser, timestamp |-> Null]
\* cachedData && Date.now() - cachedData.timestamp < CACHE_TTL
\* (CacheFresh_Le: the test with <=)
CacheFresh_Le(entry, t) == entry # NoEntry /\ t - entry.timestamp <= CACHE_TTL
CacheFresh(entry, t) == entry # NoEntry /\ t - entry.timestamp < CACHE_TTL

\* the sweep: if (now - data.timestamp > CACHE_TTL) tokenCache.delete(token)
\* (SweepDeletes_Never: a sweep that deletes nothing)
SweepDeletes_Never(entry, t) == FALSE
SweepDeletes(entry, t) == entry # NoEntry /\ t - entry.timestamp > CACHE_TTL

\* from the role check to next(): 403, or the cache filled and the headers set
Finish(tok, user, roles, t) ==
  IF roles # {} /\ ~hasRequiredRole(user, roles)
  THEN [res |-> "403", cache |-> tokenCache, user |-> user, headers |-> FALSE]
  ELSE [res |-> "next",
        cache |-> [tokenCache EXCEPT ![tok] = [user |-> user, timestamp |-> t]],
        user |-> user, headers |-> TRUE]

----------------------------------------------------------------------------
NoEv == [op |-> "none", b |-> 0, res |-> "none", was |-> "none"]
NoProxyEv == [route |-> "none", res |-> "none", status |-> 0, issued |-> FALSE]
NoCalls == [plain |-> 0, trial |-> 0]
NoAuthEv == [op |-> "none", token |-> NoToken, roles |-> {}, via |-> "none",
             answer |-> "none", res |-> "none", asked |-> FALSE, user |-> NoUser,
             headers |-> FALSE, n |-> 0, msg |-> "none"]
PendingKinds == (Tokens \ {"forged"}) \X RoleConfigs
Slots == 1..Cardinality(Routes)
NoGwEv == [op |-> "none", method |-> "GET", path |-> <<>>,
           outcome |-> [kind |-> "none", status |-> 0, code |-> "none"],
           events |-> <<>>, by |-> "none", handlers |-> <<>>, calls |-> <<>>, sent |-> <<>>]
NoRetryEv == [state |-> "idle", retries |-> 0, attempt |-> 0, calls |-> 0, delay |-> 0,
              last |-> [ok |-> TRUE, response |-> FALSE, status |-> 0]]
NoHealthEv == [op |-> "none", n |-> 0, route |-> 0, endpoint |-> "none", answers |-> <<>>,
               services |-> <<>>, status |-> "none", code |-> 0]

\* the auth service: one account in the collection, one usuario still free
UserNames == {"alice", "bob"}
Emails == {"alice@", "bob@"}
RegisterInputs == UserNames \X Emails
\* the values of the schema's path rol
Rols == {"administrador", "director", "usuario"}
NoUserDoc == [exists |-> FALSE, email |-> "none", rol |-> "none", isActive |-> FALSE,
              loginAttempts |-> 0, lockUntil |-> Null, refreshTokens |-> {}]
\* the schema's defaults: rol usuario, isActive true, loginAttempts 0,
\* lockUntil null
NewUserDoc(email) == [exists |-> TRUE, email |-> email, rol |-> "usuario", isActive |-> TRUE,
                      loginAttempts |-> 0, lockUntil |-> Null, refreshTokens |-> {}]
InitUsers == [u \in UserNames |-> IF u = "alice" THEN NewUserDoc("alice@") ELSE NoUserDoc]
NoRefreshToken == [u |-> "none", iat |-> Null]
NoSvcEv == [op |-> "none", u |-> "none", status |-> 0, issued |-> FALSE,
            token |-> NoRefreshToken]

\* the notification server has handled nothing yet
NoNotifyEv == [op |-> "none", version |-> "none", status |-> 0, emitted |-> <<>>,
               sent |-> <<>>, clientsNotified |-> 0]

NoTokenEv == [op |-> "none", status |-> 0, token |-> Null]
\* requests the proxies handle at a time
MaxProxyCalls == 2
\* no request in the proxy; of a request: which proxy, what proxyReq has gone
\* through (response received, upstream body ended, error emitted, destroyed),
\* res.statusCode, res.headersSent, whether res has ended, the status lines
\* written to the client, the callback that ran last
NoProxyCall == [proxy |-> "none", responded |-> FALSE, upstreamEnded |-> FALSE,
                errored |-> FALSE, destroyed |-> FALSE, statusCode |-> 200,
                headersSent |-> FALSE, ended |-> FALSE, written |-> <<>>,
                last |-> "none"]

InitWith(us, iats) ==
  /\ now = 0
  /\ breakers = <<>>
  /\ circuitBreakers = [t \in Targets |-> 0]
  /\ routeBreaker = [r \in Routes |-> 0]
  /\ inflight = [b \in Slots |-> NoCalls]
  /\ ev = NoEv
  /\ upstreamFailures = [t \in Targets |-> 0]
  /\ proxyEv = NoProxyEv
  /\ tokenCache = [tok \in Tokens |-> NoEntry]
  /\ nextSweep = CACHE_TTL
  /\ pendingAuth = [k \in PendingKinds |-> 0]
  /\ authEv = NoAuthEv
  /\ gwEv = NoGwEv
  /\ retryEv = NoRetryEv
  /\ healthEv = NoHealthEv
  /\ users = us
  /\ authLimiter = [hits |-> 0, resetTime |-> 0]
  /\ pendingLogin = <<>>
  /\ pendingRegister = [k \in RegisterInputs |-> 0]
  /\ accessIat = iats
  /\ failed = [u \in UserNames |-> 0]
  /\ revoked = {}
  /\ svcEv = NoSvcEv
  /\ connectedClients = 0
  /\ deploymentHistory = <<>>
  /\ accepted = <<>>
  /\ notifyEv = NoNotifyEv
  /\ refreshTokens = <<>>
  /\ issued = <<>>
  /\ live = <<>>
  /\ tokenEv = NoTokenEv
  /\ proxyCall = [i \in 1..MaxProxyCalls |-> NoProxyCall]

NoAccessTokens == [u \in UserNames |-> Null]

Init == InitWith(InitUsers, NoAccessTokens)

\* the documents the collection may hold for alice when the service starts:
\* any role, active or not, unlocked or locked after five failed logins
AdminDocs ==
  {[NewUserDoc("alice@") EXCEPT !.rol = r, !.isActive = a,
                                !.loginAttempts = l[1], !.lockUntil = l[2]] :
     r \in Rols, a \in BOOLEAN, l \in {<<0, Null>>, <<5, 2 * 60 * 60 * 1000>>}}

\* a start with such a document, alice holding an access token issued at 0 or
\* none
InitAdmin ==
  \E d \in AdminDocs, iat \in {Null, 0} :
     InitWith([InitUsers EXCEPT !["alice"] = d], [NoAccessTokens EXCEPT !["alice"] = iat])

\* createProxyForRoute(routeConfig): takes the target's breaker, builds the proxy
CreateProxyForRoute(r) ==
  /\ routeBreaker[r] = 0
  /\ LET g == getCircuitBreaker(RouteTarget(r))
     IN /\ breakers' = g.heap
        /\ circuitBreakers' = g.map
        /\ routeBreaker' = [routeBreaker EXCEPT ![r] = g.ret]
        /\ ev' = [op |-> "create", b |-> g.ret, res |-> r, was |-> "none"]
  /\ UNCHANGED <<now, inflight, upstreamFailures, proxyEv, authVars, restVars>>

\* breaker.call(fn) reaches `await fn()` or throws 'Circuit breaker esta abierto'
Call(b, cap) ==
  /\ inflight[b].plain + inflight[b].trial < cap
  /\ LET c == CallEnter(breakers[b], now)
     IN /\ breakers' = [breakers EXCEPT ![b] = c.cb]
        /\ inflight' = [inflight EXCEPT
             ![b] = IF ~c.invoked THEN @
                    ELSE IF c.trial THEN [@ EXCEPT !.trial = @ + 1]
                    ELSE [@ EXCEPT !.plain = @ + 1]]
        /\ ev' = [op |-> "call", b |-> b,
                  res |-> IF c.invoked THEN "invoked" ELSE "rejected",
                  was |-> breakers[b].state]
  /\ UNCHANGED <<now, circuitBreakers, routeBreaker, upstreamFailures, proxyEv, authVars, restVars>>

\* fn() of one awaiting call resolves: onSuccess
Resolve(b, kind) ==
  /\ inflight[b][kind] > 0
  /\ breakers' = [breakers EXCEPT ![b] = onSuccess(@)]
  /\ inflight' = [inflight EXCEPT ![b][kind] = @ - 1]
  /\ ev' = [op |-> kind, b |-> b, res |-> "resolved", was |-> breakers[b].state]
  /\ UNCHANGED <<now, circuitBreakers, routeBreaker, upstreamFailures, proxyEv, authVars, restVars>>

\* fn() of one awaiting call rejects: onFailure
Reject(b, kind) ==
  /\ inflight[b][kind] > 0
  /\ breakers[b].failureCount < MaxFailureCount
  /\ breakers' = [breakers EXCEPT ![b] = onFailure(@, now)]
  /\ inflight' = [inflight EXCEPT ![b][kind] = @ - 1]
  /\ ev' = [op |-> kind, b |-> b, res |-> "failed", was |-> breakers[b].state]
  /\ UNCHANGED <<now, circuitBreakers, routeBreaker, upstreamFailures, proxyEv, authVars, restVars>>

\* time passes
Tick ==
  /\ \E t \in TimePoints(ResetTimeout) : t > now /\ now' = t
  /\ ev' = [NoEv EXCEPT !.op = "tick"]
  /\ UNCHANGED <<breakers, circuitBreakers, routeBreaker, inflight,
                 upstreamFailures, proxyEv, authVars, restVars>>

\* time passes, past a whole reset timeout at once
LongTick ==
  /\ \E k \in 1..MaxPeriods : k * (ResetTimeout + 1) > now /\ now' = k * (ResetTimeout + 1)
  /\ ev' = [NoEv EXCEPT !.op = "tick"]
  /\ UNCHANGED <<breakers, circuitBreakers, routeBreaker, inflight,
                 upstreamFailures, proxyEv, authVars, restVars>>

\* one breaker, used by overlapping calls
NextBreaker ==
  \/ CreateProxyForRoute("r1")
  \/ \E b \in 1..Len(breakers) : Call(b, MaxInFlight)
  \/ \E b \in 1..Len(breakers), k \in {"plain", "trial"} : Resolve(b, k)
  \/ \E b \in 1..Len(breakers), k \in {"plain", "trial"} : Reject(b, k)
  \/ Tick

SpecBreaker == Init /\ [][NextBreaker]_vars

\* the registry: every route's breaker, used by overlapping calls
NextRegistry ==
  \/ \E r \in Routes : CreateProxyForRoute(r)
  \/ \E b \in 1..Len(breakers) : Call(b, MaxRegistryInFlight)
  \/ \E b \in 1..Len(breakers), k \in {"plain", "trial"} : Resolve(b, k)
  \/ \E b \in 1..Len(breakers), k \in {"plain", "trial"} : Reject(b, k)
  \/ LongTick

SpecRegistry == Init /\ [][NextRegistry]_vars

----------------------------------------------------------------------------
(* the request path built by createProxyForRoute *)

\* what http-proxy-middleware reports for one forwarded request
ProxyOutcomes == {"response", "error"}

\* the wrapper returned by createProxyForRoute: proxy(req, res, next), no breaker;
\* onProxyRes relays the upstream's answer, onError answers 502
ProxyRequest(r, outcome) ==
  /\ routeBreaker[r] # 0
  /\ upstreamFailures[RouteTarget(r)] <= Threshold
  /\ proxyEv' = [route |-> r, res |-> outcome,
                 status |-> IF outcome = "error" THEN 502 ELSE 200,
                 issued |-> TRUE]
  /\ upstreamFailures' = [upstreamFailures EXCEPT
       ![RouteTarget(r)] = IF outcome = "error" THEN @ + 1 ELSE 0]
  /\ UNCHANGED <<now, breakers, circuitBreakers, routeBreaker, inflight, ev, authVars, restVars>>

NextProxy ==
  \/ \E r \in Routes : CreateProxyForRoute(r)
  \/ \E r \in Routes, o \in ProxyOutcomes : ProxyRequest(r, o)

SpecProxy == Init /\ [][NextProxy]_vars

----------------------------------------------------------------------------
(* the middleware returned by authenticateToken(options) *)

RECURSIVE SumOver(_, _)
SumOver(f, S) ==
  IF S = {} THEN 0
  ELSE LET x == CHOOSE y \in S : TRUE IN f[x] + SumOver(f, S \ {x})

\* the requests awaiting the auth service's answer
NumPending == SumOver(pendingAuth, PendingKinds)

\* one request, from the skipPaths test to next(), or to the await of the
\* auth service's answer
AuthRequest(tok, required, roles, useService, skipped) ==
  LET base == [NoAuthEv EXCEPT !.op = "request", !.token = tok, !.roles = roles]
      f == Finish(tok, Decoded(tok), roles, now)
  IN
  /\ IF skipped
     THEN /\ authEv' = [base EXCEPT !.via = "skip", !.res = "next"]
          /\ UNCHANGED <<tokenCache, pendingAuth>>
     ELSE IF tok = NoToken
     THEN /\ authEv' = [base EXCEPT !.via = "anon",
                                    !.res = IF required THEN "401" ELSE "next"]
          /\ UNCHANGED <<tokenCache, pendingAuth>>
     ELSE IF CacheFresh(tokenCache[tok], now)
     THEN /\ authEv' = [base EXCEPT !.via = "cache", !.res = "next",
                                    !.user = tokenCache[tok].user]
          /\ UNCHANGED <<tokenCache, pendingAuth>>
     ELSE IF ~JwtVerify(tok, now)
     THEN /\ authEv' = [base EXCEPT !.via = "verify", !.res = "401",
                                    !.msg = JwtErrorMessage(JwtVerifyError(tok, now))]
          /\ UNCHANGED <<tokenCache, pendingAuth>>
     ELSE IF useService
     THEN /\ NumPending < MaxPendingAuth
          /\ pendingAuth' = [pendingAuth EXCEPT ![<<tok, roles>>] = @ + 1]
          /\ authEv' = [base EXCEPT !.via = "verify", !.res = "await", !.asked = TRUE]
          /\ UNCHANGED tokenCache
     ELSE /\ tokenCache' = f.cache
          /\ authEv' = [base EXCEPT !.via = "verify", !.res = f.res, !.user = f.user,
                                    !.headers = f.headers]
          /\ UNCHANGED pendingAuth
  /\ UNCHANGED <<now, nextSweep, breakers, circuitBreakers, routeBreaker, inflight, ev,
                 upstreamFailures, proxyEv, restVars>>

\* the auth service's answer to one awaiting request arrives
AuthAnswer(tok, roles, answer) ==
  LET v == ValidateTokenWithAuthService(tok, answer)
      user == IF v.kind = "ok" /\ v.user # NoUser THEN v.user ELSE Decoded(tok)
      f == Finish(tok, user, roles, now)
      base == [NoAuthEv EXCEPT !.op = "answer", !.token = tok, !.roles = roles,
                               !.via = "verify", !.answer = answer, !.asked = TRUE]
  IN
  /\ pendingAuth[<<tok, roles>>] > 0
  /\ pendingAuth' = [pendingAuth EXCEPT ![<<tok, roles>>] = @ - 1]
  /\ IF v.kind = "ok" /\ ~v.valid
     THEN /\ authEv' = [base EXCEPT !.res = "401"]
          /\ UNCHANGED tokenCache
     ELSE /\ tokenCache' = f.cache
          /\ authEv' = [base EXCEPT !.res = f.res, !.user = f.user, !.headers = f.headers]
  /\ UNCHANGED <<now, nextSweep, breakers, circuitBreakers, routeBreaker, inflight, ev,
                 upstreamFailures, proxyEv, restVars>>

\* the setInterval callback, every CACHE_TTL
Sweep ==
  /\ now = nextSweep
  /\ tokenCache' = [tok \in Tokens |->
       IF SweepDeletes(tokenCache[tok], now) THEN NoEntry ELSE tokenCache[tok]]
  /\ nextSweep' = nextSweep + CACHE_TTL
  /\ authEv' = [NoAuthEv EXCEPT !.op = "sweep",
       !.n = Cardinality({tok \in Tokens : SweepDeletes(tokenCache[tok], now)})]
  /\ UNCHANGED <<now, pendingAuth, breakers, circuitBreakers, routeBreaker, inflight, ev,
                 upstreamFailures, proxyEv, restVars>>

\* clearTokenCache()
ClearTokenCache ==
  /\ tokenCache' = [tok \in Tokens |-> NoEntry]
  /\ authEv' = [NoAuthEv EXCEPT !.op = "clear"]
  /\ UNCHANGED <<now, nextSweep, pendingAuth, breakers, circuitBreakers, routeBreaker,
                 inflight, ev, upstreamFailures, proxyEv, restVars>>

\* time passes; the sweep runs when it is due
AuthTick ==
  /\ \E t \in SweepTimePoints : t > now /\ t <= nextSweep /\ now' = t
  /\ authEv' = [NoAuthEv EXCEPT !.op = "tick"]
  /\ UNCHANGED <<tokenCache, nextSweep, pendingAuth, breakers, circuitBreakers,
                 routeBreaker, inflight, ev, upstreamFailures, proxyEv, restVars>>

\* the requests and middleware options tried: <<token, required, roles,
\* authServiceUrl set, path in skipPaths>>, an option a path never reads left
\* at its default
AuthInputs ==
  {<<tok, TRUE, {}, FALSE, TRUE>> : tok \in Tokens \cup {NoToken}}
    \cup {<<NoToken, required, {}, FALSE, FALSE>> : required \in BOOLEAN}
    \cup {<<tok, TRUE, roles, useService, FALSE>> :
            tok \in Tokens, roles \in RoleConfigs, useService \in BOOLEAN}

NextAuth ==
  \/ \E i \in AuthInputs : AuthRequest(i[1], i[2], i[3], i[4], i[5])
  \/ \E k \in PendingKinds, a \in AuthAnswers : AuthAnswer(k[1], k[2], a)
  \/ Sweep
  \/ ClearTokenCache
  \/ AuthTick

SpecAuth == Init /\ [][NextAuth]_vars

----------------------------------------------------------------------------
(* the middleware stack of api-gateway/src/index.js *)

\* a path is the sequence of its characters

\* routeConfig.routes, in configuration order (the first three routes)
routes == <<
  [path |-> <<"/", "a", "p", "i", "/", "a", "u", "t", "h", "/", "v", "1">>,
   target |-> "auth-service"],
  [path |-> <<"/", "a", "p", "i", "/", "u", "s", "e", "r", "s", "/", "v", "1">>,
   target |-> "user-service"],
  [path |-> <<"/", "a", "p", "i", "/", "p", "r", "o", "d", "u", "c", "t", "s", "/", "v", "1">>,
   target |-> "product-service"] >>

HealthPath == <<"/", "h", "e", "a", "l", "t", "h">>
RootPath == <<"/">>

\* String.prototype.toLowerCase on the letters the model's paths use
UpperToLower == [c \in {"A", "P", "I"} |->
                   IF c = "A" THEN "a" ELSE IF c = "P" THEN "p" ELSE "i"]
toLowerCase(p) ==
  [i \in 1..Len(p) |-> IF p[i] \in DOMAIN UpperToLower THEN UpperToLower[p[i]] ELSE p[i]]

\* String.prototype.startsWith
startsWith(p, prefix) ==
  /\ Len(p) >= Len(prefix)
  /\ SubSeq(p, 1, Len(prefix)) = prefix

\* getRouteConfig(path): this.routes.find(route => path.startsWith(route.path));
\* 0 stands for undefined
getRouteConfig(p) ==
  IF \E i \in 1..Len(routes) : startsWith(p, routes[i].path)
  THEN CHOOSE i \in 1..Len(routes) :
         /\ startsWith(p, routes[i].path)
         /\ \A j \in 1..(i - 1) : ~startsWith(p, routes[j].path)
  ELSE 0

\* app.use(mount, fn): Express matches the mount path without regard to case
\* and only up to a "/" or the end of the request path
\* (MountMatches_StartsWith: the test getRouteConfig makes)
MountMatches_StartsWith(mount, p) == startsWith(p, mount)
MountMatches(mount, p) ==
  /\ startsWith(toLowerCase(p), toLowerCase(mount))
  /\ \/ Len(p) = Len(mount)
     \/ p[Len(mount) + 1] = "/"

\* the rest of the path below a mount point, as the mounted router sees it
Below(mount, p) == SubSeq(p, Len(mount) + 1, Len(p))

\* the health router answers GET on "/", "/detailed" and "/service/:serviceName";
\* the model's paths reach the first only
HealthRouterHandles(method, sub) ==
  /\ method = "GET"
  /\ sub \in {<<>>, <<"/">>}

Methods == {"GET", "POST"}

\* the request paths of the model: a base, then a tail
PathBases ==
  {routes[i].path : i \in 1..Len(routes)} \cup
  {<<"/", "A", "P", "I", "/", "a", "u", "t", "h", "/", "v", "1">>,
   <<"/", "a", "p", "i">>, HealthPath, <<>>}
PathTails == {<<>>, <<"/">>, <<"x">>, <<"/", "x">>}
Paths == {b \o t : b \in PathBases, t \in PathTails} \ {<<>>}

\* what the upstream call of one forwarded request comes to: an answer with a
\* status, or an error with a code and no answer
UpstreamStatuses == {200, 404, 500}
ErrorCodes == {"ECONNABORTED", "ECONNREFUSED", "ECONNRESET"}
UpstreamOutcomes ==
  {[kind |-> "response", status |-> s, code |-> "none"] : s \in UpstreamStatuses} \cup
  {[kind |-> "error", status |-> 0, code |-> c] : c \in ErrorCodes}

\* the handler of one route: await axios(axiosConfig), then the try or the catch
\* (ForwardResponse_All502: every failure answered 502)
ForwardResponse_All502(outcome) ==
  IF outcome.kind = "response"
  THEN [status |-> outcome.status, body |-> "upstream"]
  ELSE [status |-> 502, body |-> "Bad Gateway"]
ForwardResponse(outcome) ==
  IF outcome.kind = "response"
  THEN [status |-> outcome.status, body |-> "upstream"]
  ELSE IF outcome.code = "ECONNABORTED"
       THEN [status |-> 504, body |-> "Gateway Timeout"]
       ELSE [status |-> 502, body |-> "Bad Gateway"]

\* the routes' layers from layer k on, in the order of routes.forEach: the
\* first whose mount matches runs; its handler always answers and never calls
\* next(), so no later layer runs
RECURSIVE RunRoutes(_, _, _)
RunRoutes(k, p, outcome) ==
  IF k > Len(routes) THEN [by |-> "none", handlers |-> <<>>, calls |-> <<>>, sent |-> <<>>]
  ELSE IF MountMatches(routes[k].path, p)
       THEN [by |-> "route", handlers |-> <<k>>, calls |-> <<routes[k].target>>,
             sent |-> <<ForwardResponse(outcome)>>]
       ELSE RunRoutes(k + 1, p, outcome)

\* the stack of index.js: "/health", the routes, GET "/", then "*"
HandleRequest(method, p, outcome) ==
  IF MountMatches(HealthPath, p) /\ HealthRouterHandles(method, Below(HealthPath, p))
  THEN [by |-> "health", handlers |-> <<>>, calls |-> <<>>,
        sent |-> <<[status |-> 200, body |-> "health"]>>]
  ELSE LET r == RunRoutes(1, p, outcome) IN
       IF r.handlers # <<>> THEN r
       ELSE IF method = "GET" /\ p = RootPath
            THEN [by |-> "root", handlers |-> <<>>, calls |-> <<>>,
                  sent |-> <<[status |-> 200, body |-> "root"]>>]
            ELSE [by |-> "notFound", handlers |-> <<>>, calls |-> <<>>,
                  sent |-> <<[status |-> 404, body |-> "Ruta no encontrada"]>>]

\* one request through the stack
GatewayRequest(method, p, outcome) ==
  /\ gwEv' = [op |-> "request", method |-> method, path |-> p, outcome |-> outcome,
               events |-> <<>>] @@ HandleRequest(method, p, outcome)
  /\ UNCHANGED <<now, breakers, circuitBreakers, routeBreaker, inflight, ev,
                 upstreamFailures, proxyEv, authVars, retryEv, healthEv, svcVars, extraVars>>

----------------------------------------------------------------------------
(* createSimpleProxy of middleware/simple-proxy.js *)

\* what the outbound http.request reports, in order: the response callback, the
\* 'error' event, the 10 s timer
SimpleProxyEvents ==
  {<<a>> : a \in UpstreamOutcomes} \cup
  {<<a, b>> : a \in UpstreamOutcomes, b \in UpstreamOutcomes}

\* the three callbacks: each answers only if (!res.headersSent)
OnProxyEvent(sent, e) ==
  IF sent # <<>> THEN sent
  ELSE IF e.kind = "response" THEN <<[status |-> e.status, body |-> "upstream"]>>
  ELSE IF e.code = "ECONNABORTED" THEN <<[status |-> 504, body |-> "Gateway timeout"]>>
  ELSE <<[status |-> 502, body |-> "Proxy error"]>>

RECURSIVE RunSimpleProxy(_, _)
RunSimpleProxy(sent, events) ==
  IF events = <<>> THEN sent
  ELSE RunSimpleProxy(OnProxyEvent(sent, Head(events)), Tail(events))

\* one request through the middleware returned by createSimpleProxy(routes[i])
SimpleProxyRequest(i, method, events) ==
  /\ gwEv' = [op |-> "simple", method |-> method, path |-> routes[i].path,
               outcome |-> Head(events), events |-> events,
               by |-> "route", handlers |-> <<i>>, calls |-> <<routes[i].target>>,
               sent |-> RunSimpleProxy(<<>>, events)]
  /\ UNCHANGED <<now, breakers, circuitBreakers, routeBreaker, inflight, ev,
                 upstreamFailures, proxyEv, authVars, retryEv, healthEv, svcVars, extraVars>>

----------------------------------------------------------------------------
(* createRetryMiddleware and isRetryableError of middleware/proxy.js *)

\* createRetryMiddleware(retries = 3, baseDelay = 1000); the routes configure
\* retries: 3, the model also builds the middleware with fewer
MaxRetries == 3
baseDelay == 1000

\* what one await next() comes to: a return, or an error with or without
\* error.response
RetryStatuses == {400, 404, 408, 429, 499, 500, 503}
NextResults ==
  {[ok |-> TRUE, response |-> FALSE, status |-> 0],
   [ok |-> FALSE, response |-> FALSE, status |-> 0]} \cup
  {[ok |-> FALSE, response |-> TRUE, status |-> s] : s \in RetryStatuses}

\* isRetryableError(error)
\* (isRetryableError_Ge400: every answered failure retried)
isRetryableError_Ge400(error) ==
  IF ~error.response THEN TRUE
  ELSE error.status >= 400
isRetryableError(error) ==
  IF ~error.response THEN TRUE
  ELSE error.status >= 500 \/ error.status = 408 \/ error.status = 429

\* (Pow2_Linear: a backoff that grows by baseDelay per attempt)
Pow2_Linear(n) == n + 1
RECURSIVE Pow2(_)
Pow2(n) == IF n = 0 THEN 1 ELSE 2 * Pow2(n - 1)

\* the middleware is entered: attempt = 0, executeWithRetry() makes its first call
RetryStart(retries) ==
  /\ retryEv.state \in {"idle", "returned", "thrown"}
  /\ retryEv' = [NoRetryEv EXCEPT !.state = "calling", !.retries = retries, !.calls = 1]
  /\ UNCHANGED <<now, breakers, circuitBreakers, routeBreaker, inflight, ev,
                 upstreamFailures, proxyEv, authVars, gwEv, healthEv, svcVars, extraVars>>

\* await next() settles with result r: return it, or count the attempt and
\* either wait for the delay or rethrow
RetrySettle(r) ==
  /\ retryEv.state = "calling"
  /\ retryEv' =
       IF r.ok THEN [retryEv EXCEPT !.state = "returned", !.last = r, !.delay = 0]
       ELSE LET attempt == retryEv.attempt + 1 IN
            IF attempt <= retryEv.retries /\ isRetryableError(r)
            THEN [retryEv EXCEPT !.state = "waiting", !.attempt = attempt, !.last = r,
                                 !.delay = baseDelay * Pow2(attempt - 1)]
            ELSE [retryEv EXCEPT !.state = "thrown", !.attempt = attempt, !.last = r,
                                 !.delay = 0]
  /\ UNCHANGED <<now, breakers, circuitBreakers, routeBreaker, inflight, ev,
                 upstreamFailures, proxyEv, authVars, gwEv, healthEv, svcVars, extraVars>>

\* the delay's timer fires: return executeWithRetry()
RetryAgain ==
  /\ retryEv.state = "waiting"
  /\ retryEv' = [retryEv EXCEPT !.state = "calling", !.calls = @ + 1]
  /\ UNCHANGED <<now, breakers, circuitBreakers, routeBreaker, inflight, ev,
                 upstreamFailures, proxyEv, authVars, gwEv, healthEv, svcVars, extraVars>>

----------------------------------------------------------------------------
(* the health router (the last part of config/routes.js) *)

\* axios.get(healthUrl, {validateStatus: status => status < 500}) resolves for
\* an answer below 500 and rejects otherwise
AxiosResolves(answer) == answer.kind = "response" /\ answer.status < 500

\* checkServiceHealth / checkServiceHealthDetailed, then the mapping of the
\* settled results: a rejected check is reported 'down'
\* (ServiceStatus_UpBelow500: every resolved check reported 'up')
ServiceStatus_UpBelow500(answer) ==
  IF AxiosResolves(answer) THEN "up" ELSE "down"
ServiceStatus(answer) ==
  IF AxiosResolves(answer)
  THEN (IF answer.status < 400 THEN "up" ELSE "degraded")
  ELSE "down"

Count(services, st) == Cardinality({i \in DOMAIN services : services[i] = st})

\* GET /health?checkServices=true: only the 'down' services change the status
BasicStatus(services) ==
  IF Count(services, "down") > 0
  THEN (IF Count(services, "down") = Len(services) THEN "unhealthy" ELSE "degraded")
  ELSE "healthy"

\* GET /health/detailed
DetailedStatus(services) ==
  IF Count(services, "down") = Len(services) THEN "unhealthy"
  ELSE IF Count(services, "down") > 0 \/ Count(services, "degraded") > 0 THEN "degraded"
  ELSE "healthy"

StatusCode(status) ==
  IF status = "unhealthy" THEN 503
  ELSE IF status = "degraded" THEN 207
  ELSE 200

HealthEndpoints == {"basic", "detailed"}
\* one aggregate health request; answers[i] is what the health endpoint of
\* routes[i] comes to, n tells a request from the one before it
HealthRequest(endpoint, answers) ==
  /\ LET services == [i \in 1..Len(routes) |-> ServiceStatus(answers[i])]
         status == IF endpoint = "basic" THEN BasicStatus(services)
                   ELSE DetailedStatus(services)
     IN healthEv' = [op |-> "aggregate", n |-> 1 - healthEv.n, route |-> 0,
                     endpoint |-> endpoint, answers |-> answers,
                     services |-> services, status |-> status,
                     code |-> StatusCode(status)]
  /\ UNCHANGED <<now, breakers, circuitBreakers, routeBreaker, inflight, ev,
                 upstreamFailures, proxyEv, authVars, gwEv, retryEv, svcVars, extraVars>>

\* GET /health without checkServices=true: no check is made
HealthRequestPlain ==
  /\ healthEv' = [op |-> "plain", n |-> 1 - healthEv.n, route |-> 0,
                  endpoint |-> "basic", answers |-> <<>>,
                  services |-> <<>>, status |-> "healthy", code |-> StatusCode("healthy")]
  /\ UNCHANGED <<now, breakers, circuitBreakers, routeBreaker, inflight, ev,
                 upstreamFailures, proxyEv, authVars, gwEv, retryEv, svcVars, extraVars>>

\* GET /health/service/:serviceName for routes[i]: the check's value, or 503
\* and 'down' when it throws
HealthServiceRequest(i, answer) ==
  /\ healthEv' = [op |-> "service", n |-> 1 - healthEv.n, route |-> i,
                  endpoint |-> "service", answers |-> <<answer>>,
                  services |-> <<ServiceStatus(answer)>>,
                  status |-> "none",
                  code |-> IF AxiosResolves(answer) THEN 200 ELSE 503]
  /\ UNCHANGED <<now, breakers, circuitBreakers, routeBreaker, inflight, ev,
                 upstreamFailures, proxyEv, authVars, gwEv, retryEv, svcVars, extraVars>>

NextGateway ==
  \/ \E m \in Methods, p \in Paths, o \in UpstreamOutcomes : GatewayRequest(m, p, o)
  \/ \E i \in 1..Len(routes), m \in Methods, es \in SimpleProxyEvents :
       SimpleProxyRequest(i, m, es)

SpecGateway == Init /\ [][NextGateway]_vars

NextRetry ==
  \/ \E n \in 0..MaxRetries : RetryStart(n)
  \/ \E r \in NextResults : RetrySettle(r)
  \/ RetryAgain

SpecRetry == Init /\ [][NextRetry]_vars

NextHealth ==
  \/ \E e \in HealthEndpoints, a \in [1..Len(routes) -> UpstreamOutcomes] :
       HealthRequest(e, a)
  \/ HealthRequestPlain
  \/ \E i \in 1..Len(routes), a \in UpstreamOutcomes : HealthServiceRequest(i, a)

SpecHealth == Init /\ [][NextHealth]_vars

----------------------------------------------------------------------------
(* the auth service: models/User.js, routes/auth.js, routes/user.js *)

MaxLoginAttempts == 5
LockTime == 2 * 60 * 60 * 1000
LimiterMax == 5
WindowMs == 15 * 60 * 1000
\* expiresIn '1h' and '7d', in seconds
AccessTtl == 60 * 60
RefreshTtl == 7 * 24 * 60 * 60

MaxLockPeriods == 1
MaxLogins == 2
MaxRegisters == 2
MaxFailed == 6

\* the instants the service is sampled at: around every multiple of LockTime
SvcTimePoints == {k * LockTime + j : k \in 0..MaxLockPeriods, j \in {0, 1}}

gatewayState == <<breakers, circuitBreakers, routeBreaker, inflight, ev,
                  upstreamFailures, proxyEv, authVars, gwVars, extraVars>>

\* the virtual isLocked: !!(this.lockUntil && this.lockUntil > Date.now())
isLocked(doc, t) == doc.lockUntil # Null /\ doc.lockUntil > t

\* incLoginAttempts(): the tests read the loaded document, updateOne applies
\* the $inc, $set and $unset to the stored one
incLoginAttempts(doc, stored, t) ==
  IF doc.lockUntil # Null /\ doc.lockUntil < t
  THEN [stored EXCEPT !.lockUntil = Null, !.loginAttempts = 1]
  ELSE [stored EXCEPT
          !.loginAttempts = @ + 1,
          !.lockUntil = IF doc.loginAttempts + 1 >= MaxLoginAttempts /\ ~isLocked(doc, t)
                        THEN t + LockTime ELSE @]

\* resetLoginAttempts(): $unset of both fields, read back as the defaults
resetLoginAttempts(stored) == [stored EXCEPT !.loginAttempts = 0, !.lockUntil = Null]

\* jwt.sign({userId}, secret, {expiresIn: '7d'}): the token is a function of the
\* user and of the second it is signed in
Seconds(t) == t \div 1000
SignRefresh(u, t) == [u |-> u, iat |-> Seconds(t)]
RefreshTokens == {[u |-> u, iat |-> Seconds(t)] : u \in UserNames, t \in SvcTimePoints}

\* express-rate-limit: a new window after resetTime, else one more hit
\* (hits stop counting one past the maximum)
Hit(lim, t) ==
  IF t >= lim.resetTime THEN [hits |-> 1, resetTime |-> t + WindowMs]
  ELSE [lim EXCEPT !.hits = IF @ > LimiterMax THEN @ ELSE @ + 1]

\* POST /login up to await user.comparePassword: limiter, findOne, isLocked
LoginRequest(u, ok) ==
  /\ failed[u] < MaxFailed
  /\ authLimiter' = Hit(authLimiter, now)
  /\ LET status == IF authLimiter'.hits > LimiterMax THEN 429
                   ELSE IF ~users[u].exists \/ ~users[u].isActive THEN 401
                   ELSE IF isLocked(users[u], now) THEN 423
                   ELSE 0
     IN /\ status = 0 => Len(pendingLogin) < MaxLogins
        /\ pendingLogin' = IF status = 0
                           THEN Append(pendingLogin, [u |-> u, ok |-> ok, doc |-> users[u]])
                           ELSE pendingLogin
        /\ svcEv' = [op |-> "login", u |-> u, status |-> status, issued |-> FALSE,
                     token |-> NoRefreshToken]
  /\ UNCHANGED <<now, users, pendingRegister, accessIat, failed, revoked, gatewayState>>

Remove(seq, i) == SubSeq(seq, 1, i - 1) \o SubSeq(seq, i + 1, Len(seq))

\* POST /login from the result of comparePassword on: incLoginAttempts and 401,
\* or resetLoginAttempts, the new tokens, user.save() and 200
LoginSettle(i) ==
  /\ i \in 1..Len(pendingLogin)
  /\ LET p == pendingLogin[i]
         u == p.u
     IN IF ~p.ok
        THEN /\ users' = [users EXCEPT ![u] = incLoginAttempts(p.doc, @, now)]
             /\ failed' = [failed EXCEPT ![u] = @ + 1]
             /\ svcEv' = [op |-> "loginSettle", u |-> u, status |-> 401, issued |-> FALSE,
                          token |-> NoRefreshToken]
             /\ UNCHANGED accessIat
        ELSE /\ users' = [users EXCEPT ![u] =
                  [resetLoginAttempts(@) EXCEPT
                     !.refreshTokens = @ \cup {SignRefresh(u, now).iat}]]
             /\ failed' = [failed EXCEPT ![u] = 0]
             /\ accessIat' = [accessIat EXCEPT ![u] = now]
             /\ svcEv' = [op |-> "loginSettle", u |-> u, status |-> 200, issued |-> TRUE,
                          token |-> SignRefresh(u, now)]
  /\ pendingLogin' = Remove(pendingLogin, i)
  /\ UNCHANGED <<now, authLimiter, pendingRegister, revoked, gatewayState>>

\* POST /refresh with cookie tok: jwt.verify, then findOne by _id, token, isActive
Refresh(tok) ==
  /\ LET u == tok.u
         good == /\ Seconds(now) < tok.iat + RefreshTtl
                 /\ users[u].exists
                 /\ tok.iat \in users[u].refreshTokens
                 /\ users[u].isActive
     IN /\ accessIat' = IF good THEN [accessIat EXCEPT ![u] = now] ELSE accessIat
        /\ svcEv' = [op |-> "refresh", u |-> u, status |-> IF good THEN 200 ELSE 401,
                     issued |-> good, token |-> tok]
  /\ UNCHANGED <<now, users, authLimiter, pendingLogin, pendingRegister, failed, revoked,
                 gatewayState>>

\* authMiddleware lets the request of u through: an unexpired access token of
\* an active account that is not locked
Authenticated(u) ==
  /\ accessIat[u] # Null
  /\ Seconds(now) < Seconds(accessIat[u]) + AccessTtl
  /\ users[u].exists
  /\ users[u].isActive
  /\ ~isLocked(users[u], now)

\* authMiddleware on a request bearing the access token last issued to u:
\* jwt.verify, findById, isActive, isLocked
authMiddleware(u) ==
  IF Seconds(now) >= Seconds(accessIat[u]) + AccessTtl THEN 401
  ELSE IF ~users[u].exists \/ ~users[u].isActive THEN 401
  ELSE IF isLocked(users[u], now) THEN 423
  ELSE 200

\* GET /me with the access token last issued to u
Me(u) ==
  /\ accessIat[u] # Null
  /\ svcEv' = [op |-> "me", u |-> u, status |-> authMiddleware(u), issued |-> FALSE,
               token |-> NoRefreshToken]
  /\ UNCHANGED <<now, users, authLimiter, pendingLogin, pendingRegister, accessIat, failed,
                 revoked, gatewayState>>

\* POST /logout with cookie tok: revokeRefreshToken(tok), save
Logout(tok) ==
  /\ Authenticated(tok.u)
  /\ users' = [users EXCEPT ![tok.u].refreshTokens = @ \ {tok.iat}]
  /\ revoked' = revoked \cup {tok}
  /\ svcEv' = [op |-> "logout", u |-> tok.u, status |-> 200, issued |-> FALSE,
               token |-> tok]
  /\ UNCHANGED <<now, authLimiter, pendingLogin, pendingRegister, accessIat, failed,
                 gatewayState>>

Stored(u) == {[u |-> u, iat |-> i] : i \in users[u].refreshTokens}

\* POST /logout-all (op "logoutAll"), PUT /change-password once both password
\* checks passed (op "changePassword"): refreshTokens = [], save
RevokeAll(u, op) ==
  /\ Authenticated(u)
  /\ users' = [users EXCEPT ![u].refreshTokens = {}]
  /\ revoked' = revoked \cup Stored(u)
  /\ svcEv' = [op |-> op, u |-> u, status |-> 200, issued |-> FALSE,
               token |-> NoRefreshToken]
  /\ UNCHANGED <<now, authLimiter, pendingLogin, pendingRegister, accessIat, failed,
                 gatewayState>>

\* req.user.role as adminMiddleware reads it: the schema has the path rol and
\* no path role, so the document yields undefined
role(doc) == "undefined"

adminMiddleware_NoCheck(doc) == 0
\* adminMiddleware after authMiddleware has set req.user: the status it
\* answers, 0 when it calls next()
adminMiddleware(doc) ==
  IF ~doc.exists THEN 401
  ELSE IF role(doc) # "admin" THEN 403
  ELSE 0

\* DELETE /account by u itself (self TRUE), PUT /:id/status by another user who
\* passes authMiddleware and adminMiddleware, with isActive in the body: a
\* deactivation empties refreshTokens
SetActive(u, self, isActive) ==
  /\ users[u].exists
  /\ self => (Authenticated(u) /\ ~isActive)
  /\ ~self => \E a \in UserNames \ {u} :
                 Authenticated(a) /\ adminMiddleware(users[a]) = 0
  /\ users' = [users EXCEPT ![u].isActive = isActive,
                            ![u].refreshTokens = IF isActive THEN @ ELSE {}]
  /\ revoked' = IF isActive THEN revoked ELSE revoked \cup Stored(u)
  /\ svcEv' = [op |-> "setActive", u |-> u, status |-> 200, issued |-> FALSE,
               token |-> NoRefreshToken]
  /\ UNCHANGED <<now, authLimiter, pendingLogin, pendingRegister, accessIat, failed,
                 gatewayState>>

\* the administration endpoints GET /, GET /:id, PUT /:id/role, PUT /:id/status
AdminOps == {"adminList", "adminGet", "adminRole", "adminStatus"}
\* values of role in the body of PUT /:id/role
BodyRoles == {"user", "admin", "usuario"}
\* endpoint, :id, role and isActive of the requests made
AdminInputs ==
  {<<"adminList", "alice", "admin", TRUE>>}
    \cup {<<"adminGet", t, "admin", TRUE>> : t \in UserNames}
    \cup {<<"adminRole", t, r, TRUE>> : t \in UserNames, r \in BodyRoles}
    \cup {<<"adminStatus", t, "admin", b>> : t \in UserNames, b \in BOOLEAN}
Anonymous == "anonymous"

\* the handler behind authMiddleware and adminMiddleware, for requester a:
\* the status and the user collection afterwards. user.role = role sets no
\* schema path, so save() stores nothing for PUT /:id/role.
AdminHandler(op, a, target, bodyRole, isActive) ==
  CASE op = "adminList" -> [status |-> 200, users |-> users]
    [] op = "adminGet" ->
         [status |-> IF users[target].exists THEN 200 ELSE 404, users |-> users]
    [] op = "adminRole" ->
         [status |-> IF bodyRole \notin {"user", "admin", "moderator"} THEN 400
                     ELSE IF ~users[target].exists THEN 404
                     ELSE IF target = a /\ bodyRole # "admin" THEN 400
                     ELSE 200,
          users |-> users]
    [] op = "adminStatus" ->
         IF ~users[target].exists THEN [status |-> 404, users |-> users]
         ELSE IF target = a /\ ~isActive THEN [status |-> 400, users |-> users]
         ELSE [status |-> 200,
               users |-> [users EXCEPT ![target].isActive = isActive,
                                       ![target].refreshTokens =
                                          IF isActive THEN @ ELSE {}]]

\* a request to an administration endpoint: without a token (a = Anonymous)
\* or with the access token last issued to a
AdminRequest(op, a, target, bodyRole, isActive) ==
  /\ a \in UserNames => accessIat[a] # Null
  /\ LET auth == IF a = Anonymous THEN 401 ELSE authMiddleware(a)
         admin == IF auth # 200 THEN auth ELSE adminMiddleware(users[a])
         r == IF admin # 0 THEN [status |-> admin, users |-> users]
              ELSE AdminHandler(op, a, target, bodyRole, isActive)
     IN /\ users' = r.users
        /\ revoked' = revoked \cup {[u |-> target, iat |-> i] :
                                     i \in users[target].refreshTokens
                                             \ r.users[target].refreshTokens}
        /\ svcEv' = [op |-> op, u |-> a, status |-> r.status, issued |-> FALSE,
                     token |-> NoRefreshToken]
  /\ UNCHANGED <<now, authLimiter, pendingLogin, pendingRegister, accessIat, failed,
                 gatewayState>>

\* findOne({$or: [{usuario}, {email}]})
Existing(usuario, email) ==
  \E v \in UserNames : users[v].exists /\ (v = usuario \/ users[v].email = email)

\* POST /register up to await user.save(): the existence check
RegisterCheck(usuario, email) ==
  /\ LET status == IF Existing(usuario, email) THEN 409 ELSE 0
         n == pendingRegister[<<usuario, email>>]
     IN /\ status = 0 => n < MaxRegisters
        /\ pendingRegister' = IF status = 0
                              THEN [pendingRegister EXCEPT ![<<usuario, email>>] = n + 1]
                              ELSE pendingRegister
        /\ svcEv' = [op |-> "register", u |-> usuario, status |-> status,
                     issued |-> FALSE, token |-> NoRefreshToken]
  /\ UNCHANGED <<now, users, authLimiter, pendingLogin, accessIat, failed, revoked,
                 gatewayState>>

\* the paths the route gives new User(...), and those the schema requires
DocPaths == {"usuario", "password", "email", "departamento", "rol"}
RequiredPaths == {"usuario", "firstName", "lastName", "password", "email",
                  "departamento", "rol"}

\* user.save(): validation, then the insert under the unique indexes
Save(usuario, email) ==
  IF ~(RequiredPaths \subseteq DocPaths) THEN "ValidationError"
  ELSE IF Existing(usuario, email) THEN "E11000"
  ELSE "saved"

\* POST /register from user.save() on: 201 with the tokens, or the catch, which
\* answers createError(500) for every error
RegisterSave(usuario, email) ==
  /\ pendingRegister[<<usuario, email>>] > 0
  /\ pendingRegister' = [pendingRegister EXCEPT ![<<usuario, email>>] = @ - 1]
  /\ IF Save(usuario, email) = "saved"
     THEN /\ users' = [users EXCEPT ![usuario] =
               [NewUserDoc(email) EXCEPT !.refreshTokens = {SignRefresh(usuario, now).iat}]]
          /\ accessIat' = [accessIat EXCEPT ![usuario] = now]
          /\ svcEv' = [op |-> "registerSave", u |-> usuario, status |-> 201,
                       issued |-> TRUE, token |-> SignRefresh(usuario, now)]
     ELSE /\ svcEv' = [op |-> "registerSave", u |-> usuario, status |-> 500,
                       issued |-> FALSE, token |-> NoRefreshToken]
          /\ UNCHANGED <<users, accessIat>>
  /\ UNCHANGED <<now, authLimiter, pendingLogin, failed, revoked, gatewayState>>

\* time passes
SvcTick ==
  /\ \E t \in SvcTimePoints : t > now /\ now' = t
  /\ UNCHANGED <<svcVars, gatewayState>>

\* logins with right and wrong passwords
NextLogin ==
  \/ \E u \in UserNames, ok \in BOOLEAN : LoginRequest(u, ok)
  \/ \E i \in 1..MaxLogins : LoginSettle(i)
  \/ SvcTick

SpecLogin == Init /\ [][NextLogin]_vars

\* registrations, and logins with the right password
NextRegister ==
  \/ \E k \in RegisterInputs : RegisterCheck(k[1], k[2])
  \/ \E k \in RegisterInputs : RegisterSave(k[1], k[2])
  \/ \E u \in UserNames : LoginRequest(u, TRUE)
  \/ \E i \in 1..MaxLogins : LoginSettle(i)
  \/ SvcTick

SpecRegister == Init /\ [][NextRegister]_vars

\* sessions of alice: logins with the right password, refreshes and revocations
NextSession ==
  \/ LoginRequest("alice", TRUE)
  \/ \E i \in 1..MaxLogins : LoginSettle(i)
  \/ \E tok \in RefreshTokens : Refresh(tok)
  \/ Me("alice")
  \/ \E tok \in RefreshTokens : Logout(tok)
  \/ \E op \in {"logoutAll", "changePassword"} : RevokeAll("alice", op)
  \/ \E self \in BOOLEAN, a \in BOOLEAN : SetActive("alice", self, a)
  \/ SvcTick

SpecSession == Init /\ [][NextSession]_vars

\* logins of alice with the right password and requests to the administration
\* endpoints
NextAdmin ==
  \/ LoginRequest("alice", TRUE)
  \/ \E i \in 1..MaxLogins : LoginSettle(i)
  \/ \E a \in UserNames \cup {Anonymous}, i \in AdminInputs :
       AdminRequest(i[1], a, i[2], i[3], i[4])
  \/ SvcTick

SpecAdmin == InitAdmin /\ [][NextAdmin]_vars

----------------------------------------------------------------------------
(* the refreshTokens array of one user (alice), as the array it is: the set in
   users keeps neither the order nor the repetitions *)

\* this.refreshTokens.length > 5, slice(-5)
MaxRefreshTokens == 5

MaxIssued == 6
MaxTokenSeconds == 5

\* an instant at which every token signed in the seconds 0..MaxTokenSeconds
\* has expired
AllExpired == (RefreshTtl + MaxTokenSeconds + 1) * 1000

\* the state outside the array and its history
tokenRest == <<breakers, circuitBreakers, routeBreaker, inflight, ev, upstreamFailures,
               proxyEv, authVars, gwVars, notifyVars, svcVars, proxyCall>>

\* authMiddleware on a request of alice bearing an unexpired access token
TokenAuthenticated ==
  /\ users["alice"].exists
  /\ users["alice"].isActive
  /\ ~isLocked(users["alice"], now)

\* the refresh token strings of the array
TokenStrings(list) == [i \in 1..Len(list) |-> list[i].token]

ExpiresAfter(rt, t) == rt.expiresAt > t
\* cleanExpiredRefreshTokens(): filter(rt => rt.expiresAt > now)
cleanExpiredRefreshTokens(list, t) ==
  SelectSeq(list, LAMBDA rt : ExpiresAfter(rt, t))

\* generateRefreshToken(): push {token}, with the default expiresAt, then keep
\* the last five
\* (generateRefreshToken_KeepSix: the cut one entry late)
generateRefreshToken_KeepSix(list, t) ==
  LET pushed == Append(list, [token |-> SignRefresh("alice", t).iat,
                              expiresAt |-> t + RefreshTtl * 1000])
  IN IF Len(pushed) > MaxRefreshTokens + 1
     THEN SubSeq(pushed, Len(pushed) - MaxRefreshTokens, Len(pushed)) ELSE pushed
generateRefreshToken(list, t) ==
  LET pushed == Append(list, [token |-> SignRefresh("alice", t).iat,
                              expiresAt |-> t + RefreshTtl * 1000])
  IN IF Len(pushed) > MaxRefreshTokens
     THEN SubSeq(pushed, Len(pushed) - MaxRefreshTokens + 1, Len(pushed)) ELSE pushed

\* revokeRefreshToken(token): filter(rt => rt.token !== token)
revokeRefreshToken(list, token) == SelectSeq(list, LAMBDA rt : rt.token # token)

\* POST /login of alice with the right password, from comparePassword on
TokenLogin ==
  /\ Len(issued) < MaxIssued
  /\ refreshTokens' = generateRefreshToken(cleanExpiredRefreshTokens(refreshTokens, now), now)
  /\ issued' = Append(issued, SignRefresh("alice", now).iat)
  /\ live' = Append(live, SignRefresh("alice", now).iat)
  /\ tokenEv' = [op |-> "login", status |-> 200, token |-> Null]
  /\ UNCHANGED <<now, tokenRest>>

\* POST /register with alice's usuario: the existence check answers 409
TokenRegister ==
  /\ Existing("alice", "alice@")
  /\ tokenEv' = [op |-> "register", status |-> 409, token |-> Null]
  /\ UNCHANGED <<now, refreshTokens, issued, live, tokenRest>>

\* POST /logout with the cookie token
TokenLogout(token) ==
  /\ TokenAuthenticated
  /\ refreshTokens' = revokeRefreshToken(refreshTokens, token)
  /\ live' = SelectSeq(live, LAMBDA x : x # token)
  /\ tokenEv' = [op |-> "logout", status |-> 200, token |-> Null]
  /\ UNCHANGED <<now, issued, tokenRest>>

\* POST /logout-all
TokenLogoutAll ==
  /\ TokenAuthenticated
  /\ refreshTokens' = <<>>
  /\ live' = <<>>
  /\ tokenEv' = [op |-> "logoutAll", status |-> 200, token |-> Null]
  /\ UNCHANGED <<now, issued, tokenRest>>

\* POST /refresh with the cookie token: jwt.verify, then the findOne on
\* refreshTokens.token
TokenRefresh(token) ==
  /\ LET good == /\ Seconds(now) < token + RefreshTtl
                 /\ \E i \in 1..Len(refreshTokens) : refreshTokens[i].token = token
                 /\ users["alice"].isActive
     IN tokenEv' = [op |-> "refresh", status |-> IF good THEN 200 ELSE 401,
                   token |-> token]
  /\ UNCHANGED <<now, refreshTokens, issued, live, tokenRest>>

\* time passes: to the next second once a token was signed in this one (the
\* seconds in which none is signed are passed over), or until every token
\* signed so far has expired
TokenTick ==
  /\ \/ /\ Seconds(now) < MaxTokenSeconds
        /\ issued # <<>> /\ issued[Len(issued)] = Seconds(now)
        /\ now' = now + 1000
     \/ /\ now < AllExpired
        /\ now' = AllExpired
  /\ UNCHANGED <<refreshTokens, issued, live, tokenEv, tokenRest>>

Range(seq) == {seq[i] : i \in 1..Len(seq)}

NextTokens ==
  \/ TokenLogin
  \/ TokenRegister
  \/ \E token \in Range(issued) : TokenLogout(token)
  \/ TokenLogoutAll
  \/ \E token \in Range(issued) : TokenRefresh(token)
  \/ TokenTick

SpecTokens == Init /\ [][NextTokens]_vars

----------------------------------------------------------------------------
(* the callbacks of one request in createSimpleProxy and createCustomProxy, one
   step each: the two proxies register the same three callbacks *)

Proxies == {"simple", "custom"}

\* everything but the request in the proxy
callRest == <<now, breakers, circuitBreakers, routeBreaker, inflight, ev,
              upstreamFailures, proxyEv, authVars, gwVars, svcVars, notifyVars,
              tokenVars>>

\* res.writeHead at the first write or at end(): the status line goes out once
FlushHeaders(c) ==
  IF c.headersSent THEN c
  ELSE [c EXCEPT !.headersSent = TRUE, !.written = Append(@, c.statusCode)]

\* res.status(status).json(body): the status, the headers and the body leave,
\* res ends
json(c, status) ==
  [c EXCEPT !.statusCode = status, !.headersSent = TRUE, !.ended = TRUE,
            !.written = Append(@, status)]

\* the callback of http.request: res.status(proxyRes.statusCode), res.set of
\* every header, proxyRes.pipe(res); nothing is written yet
ResponseCallback(c, status) == [c EXCEPT !.responded = TRUE, !.statusCode = status]

\* proxyReq.on('error')
\* (ErrorHandler_NoGuard: the 502 sent whatever res.headersSent)
ErrorHandler_NoGuard(c) == json([c EXCEPT !.errored = TRUE], 502)
ErrorHandler(c) ==
  IF ~c.headersSent THEN json([c EXCEPT !.errored = TRUE], 502)
  ELSE [c EXCEPT !.errored = TRUE]

\* proxyReq.setTimeout(10000, ...): the 504, then proxyReq.destroy()
TimeoutHandler(c) ==
  [(IF ~c.headersSent THEN json(c, 504) ELSE c) EXCEPT !.destroyed = TRUE]

\* the pipe hands a chunk of the upstream body to res.write, or the end of
\* the body to res.end(); a write to a res that has ended writes nothing
PipeData(c) == IF c.ended THEN c ELSE FlushHeaders(c)
PipeEnd(c) ==
  [(IF c.ended THEN c ELSE [FlushHeaders(c) EXCEPT !.ended = TRUE])
     EXCEPT !.upstreamEnded = TRUE]

\* the proxy middleware is entered for request i: http.request, the handlers,
\* proxyReq.end()
ProxyStart(i, proxy) ==
  /\ proxyCall' = [proxyCall EXCEPT ![i] = [NoProxyCall EXCEPT !.proxy = proxy,
                                                               !.last = "start"]]
  /\ UNCHANGED callRest

\* the upstream's response headers arrive
OnResponse(i, status) ==
  /\ proxyCall[i].proxy \in Proxies
  /\ ~proxyCall[i].responded /\ ~proxyCall[i].errored /\ ~proxyCall[i].destroyed
  /\ proxyCall' = [proxyCall EXCEPT
                     ![i] = [ResponseCallback(@, status) EXCEPT !.last = "response"]]
  /\ UNCHANGED callRest

\* a chunk of the upstream body arrives
OnData(i) ==
  /\ proxyCall[i].responded /\ ~proxyCall[i].upstreamEnded
  /\ ~proxyCall[i].errored /\ ~proxyCall[i].destroyed
  /\ proxyCall' = [proxyCall EXCEPT ![i] = [PipeData(@) EXCEPT !.last = "data"]]
  /\ UNCHANGED callRest

\* the upstream body ends
OnEnd(i) ==
  /\ proxyCall[i].responded /\ ~proxyCall[i].upstreamEnded
  /\ ~proxyCall[i].errored /\ ~proxyCall[i].destroyed
  /\ proxyCall' = [proxyCall EXCEPT ![i] = [PipeEnd(@) EXCEPT !.last = "end"]]
  /\ UNCHANGED callRest

\* proxyReq emits 'error': a failure of the connection at any moment before
\* the upstream body has ended, or the destroy() of the timeout handler
OnError(i) ==
  /\ proxyCall[i].proxy \in Proxies
  /\ ~proxyCall[i].errored /\ ~proxyCall[i].upstreamEnded
  /\ proxyCall' = [proxyCall EXCEPT ![i] = [ErrorHandler(@) EXCEPT !.last = "error"]]
  /\ UNCHANGED callRest

\* the socket of proxyReq has been idle for 10 s
OnTimeout(i) ==
  /\ proxyCall[i].proxy \in Proxies
  /\ ~proxyCall[i].destroyed /\ ~proxyCall[i].errored /\ ~proxyCall[i].upstreamEnded
  /\ proxyCall' = [proxyCall EXCEPT ![i] = [TimeoutHandler(@) EXCEPT !.last = "timeout"]]
  /\ UNCHANGED callRest

NextCallbacks ==
  \/ \E i \in 1..MaxProxyCalls, proxy \in Proxies : ProxyStart(i, proxy)
  \/ \E i \in 1..MaxProxyCalls, status \in UpstreamStatuses : OnResponse(i, status)
  \/ \E i \in 1..MaxProxyCalls : OnData(i)
  \/ \E i \in 1..MaxProxyCalls : OnEnd(i)
  \/ \E i \in 1..MaxProxyCalls : OnError(i)
  \/ \E i \in 1..MaxProxyCalls : OnTimeout(i)

SpecCallbacks == Init /\ [][NextCallbacks]_vars

----------------------------------------------------------------------------
(* the WebSocket notification server *)

\* deploymentHistory.length > 10, slice(-10); slice(-5) on a connection
HistoryMax == 10
HistorySent == 5

MaxNotifications == 11
MaxClients == 1

\* everything but the notification server's state
otherVars == <<now, breakers, circuitBreakers, routeBreaker, inflight, ev,
               upstreamFailures, proxyEv, authVars, gwVars, svcVars, tokenVars,
               proxyCall>>

\* req.body of POST /notify-update: version and timestamp, either of which
\* may be missing ("undefined", Null); the version may also be empty
NotifyBodies ==
  {[version |-> "v1", timestamp |-> Null], [version |-> "v2", timestamp |-> 1700],
   [version |-> "", timestamp |-> 1700], [version |-> "undefined", timestamp |-> Null]}

\* !version
Falsy(version) == version \in {"", "undefined"}

\* Array.prototype.slice(-n)
\* (sliceLast_First: slice(0, n), the oldest entries)
sliceLast_First(seq, n) == SubSeq(seq, 1, IF Len(seq) < n THEN Len(seq) ELSE n)
sliceLast(seq, n) == SubSeq(seq, (IF Len(seq) > n THEN Len(seq) - n ELSE 0) + 1, Len(seq))

\* io.on('connection'): the counter, and the recent history to the new socket
\* when there is any
Connect ==
  /\ connectedClients < MaxClients
  /\ connectedClients' = connectedClients + 1
  /\ notifyEv' = [NoNotifyEv EXCEPT
                    !.op = "connect",
                    !.sent = IF Len(deploymentHistory) > 0
                             THEN sliceLast(deploymentHistory, HistorySent) ELSE <<>>]
  /\ UNCHANGED <<deploymentHistory, accepted, otherVars>>

\* socket.on('disconnect')
Disconnect ==
  /\ connectedClients > 0
  /\ connectedClients' = connectedClients - 1
  /\ notifyEv' = [NoNotifyEv EXCEPT !.op = "disconnect"]
  /\ UNCHANGED <<deploymentHistory, accepted, otherVars>>

\* POST /notify-update
NotifyUpdate(body) ==
  IF Falsy(body.version)
  THEN /\ notifyEv' = [NoNotifyEv EXCEPT !.op = "notify", !.version = body.version,
                                         !.status = 400]
       /\ UNCHANGED <<connectedClients, deploymentHistory, accepted, otherVars>>
  ELSE LET deploymentData ==
             [version |-> body.version,
              timestamp |-> IF body.timestamp = Null THEN now ELSE body.timestamp]
           pushed == Append(deploymentHistory, deploymentData)
       IN /\ Len(accepted) < MaxNotifications
          /\ deploymentHistory' = IF Len(pushed) > HistoryMax
                                  THEN sliceLast(pushed, HistoryMax) ELSE pushed
          /\ accepted' = Append(accepted, deploymentData)
          /\ notifyEv' = [NoNotifyEv EXCEPT !.op = "notify", !.version = body.version,
                                            !.status = 200,
                                            !.emitted = <<deploymentData>>,
                                            !.clientsNotified = connectedClients]
          /\ UNCHANGED <<connectedClients, otherVars>>

NextNotify ==
  \/ Connect
  \/ Disconnect
  \/ \E body \in NotifyBodies : NotifyUpdate(body)

SpecNotify == Init /\ [][NextNotify]_vars

----------------------------------------------------------------------------
(* Properties of the circuit breaker *)

Breakers == 1..Len(breakers)
Elapsed(b) == now - breakers[b].lastFailureTime
\* the step taken is a call(fn) on instance b
CallOn(b) == ev'.op = "call" /\ ev'.b = b
\* the step taken settles fn() of a call on instance b
SettleOn(b) == ev'.op \in {"plain", "trial"} /\ ev'.b = b

\* C1: once failureCount has reached the threshold with no success since, the
\* breaker is OPEN until resetTimeout has elapsed since the last failure, and
\* every call(fn) made before that throws without invoking fn.
C1_OpenUntilReset ==
  \A b \in Breakers :
    (breakers[b].failureCount >= Threshold /\ Elapsed(b) < ResetTimeout)
      => breakers[b].state = "OPEN"
C1_CallRejected ==
  \A b \in Breakers :
    (breakers[b].failureCount >= Threshold /\ Elapsed(b) < ResetTimeout /\ CallOn(b))
      => (ev'.res = "rejected" /\ inflight' = inflight /\ breakers' = breakers)
C1_OpenAfterThresholdFailures == []C1_OpenUntilReset /\ [][C1_CallRejected]_vars

C1_Witness ==
  /\ ev.op = "call" /\ ev.res = "rejected"
  /\ breakers[ev.b].failureCount = Threshold
  /\ Elapsed(ev.b) > 0 /\ Elapsed(ev.b) < ResetTimeout

\* C2: after 5 failed forwardings in a row to an upstream, the next request on
\* a route to that upstream is answered 503 and no upstream request is issued.
C2_SixthRequestRejected ==
  [][\A r \in Routes :
       (/\ upstreamFailures[RouteTarget(r)] >= Threshold
        /\ proxyEv'.route = r
        /\ <<proxyEv, upstreamFailures>>' # <<proxyEv, upstreamFailures>>)
         => (proxyEv'.status = 503 /\ ~proxyEv'.issued)]_vars

\* C3: while a HALF_OPEN breaker's trial call is in flight, no other call(fn)
\* has its fn invoked.
C3_SingleTrial ==
  [][\A b \in Breakers :
       (breakers[b].state = "HALF_OPEN" /\ inflight[b].trial > 0 /\ CallOn(b))
         => ev'.res = "rejected"]_vars

\* C4: every change of state is CLOSED->OPEN, OPEN->HALF_OPEN,
\* HALF_OPEN->CLOSED or HALF_OPEN->OPEN.
C4_TransitionsOnly ==
  [][\A b \in Breakers :
       breakers'[b].state # breakers[b].state
         => <<breakers[b].state, breakers'[b].state>> \in
              {<<"CLOSED", "OPEN">>, <<"OPEN", "HALF_OPEN">>,
               <<"HALF_OPEN", "CLOSED">>, <<"HALF_OPEN", "OPEN">>}]_vars

\* C5: a call that succeeds on a HALF_OPEN breaker leaves it CLOSED with
\* failureCount 0; one that fails leaves it OPEN with lastFailureTime the time
\* of the failure; and OPEN becomes HALF_OPEN only once a full resetTimeout has
\* elapsed since lastFailureTime.
C5_HalfOpenSettles ==
  [][\A b \in Breakers :
       /\ (breakers[b].state = "HALF_OPEN" /\ SettleOn(b) /\ ev'.res = "resolved")
            => (breakers'[b].state = "CLOSED" /\ breakers'[b].failureCount = 0)
       /\ (breakers[b].state = "HALF_OPEN" /\ SettleOn(b) /\ ev'.res = "failed")
            => (breakers'[b].state = "OPEN" /\ breakers'[b].lastFailureTime = now)
       /\ (breakers[b].state = "OPEN" /\ breakers'[b].state = "HALF_OPEN")
            => Elapsed(b) >= ResetTimeout]_vars

C5_Witness ==
  /\ ev.op = "trial" /\ ev.was = "HALF_OPEN" /\ ev.res = "failed"
  /\ breakers[ev.b].state = "OPEN" /\ breakers[ev.b].lastFailureTime > ResetTimeout

\* C6 as claimed: a call on an OPEN breaker goes through, to HALF_OPEN, when
\* the time since lastFailureTime is >= resetTimeout, and is rejected otherwise.
C6_HalfOpenAtResetTimeout ==
  [][\A b \in Breakers :
       (breakers[b].state = "OPEN" /\ CallOn(b))
         => IF Elapsed(b) >= ResetTimeout
            THEN ev'.res = "invoked" /\ breakers'[b].state = "HALF_OPEN"
            ELSE ev'.res = "rejected"]_vars

\* C6 as amended: a call on an OPEN breaker goes through, to HALF_OPEN, when
\* the time since lastFailureTime is strictly greater than resetTimeout, and is
\* rejected otherwise, the time being exactly resetTimeout included.
C6_HalfOpenAfterResetTimeout ==
  [][\A b \in Breakers :
       (breakers[b].state = "OPEN" /\ CallOn(b))
         => IF Elapsed(b) > ResetTimeout
            THEN ev'.res = "invoked" /\ breakers'[b].state = "HALF_OPEN"
            ELSE ev'.res = "rejected" /\ breakers'[b].state = "OPEN"]_vars

C6_Witness ==
  /\ ev.op = "call" /\ ev.was = "OPEN" /\ ev.res = "rejected"
  /\ Elapsed(ev.b) = ResetTimeout

\* C7: routes get the same breaker instance exactly when they have the same
\* target, the instance the registry holds for it, and a call or an outcome
\* recorded for one target leaves the breaker of every other target unchanged.
C7_OnePerTarget ==
  \A r1, r2 \in Routes :
    (routeBreaker[r1] # 0 /\ routeBreaker[r2] # 0)
      => /\ routeBreaker[r1] = circuitBreakers[RouteTarget(r1)]
         /\ (routeBreaker[r1] = routeBreaker[r2]) <=> (RouteTarget(r1) = RouteTarget(r2))
C7_Frame ==
  \A r1, r2 \in Routes :
    (/\ routeBreaker[r1] # 0 /\ routeBreaker[r2] # 0
     /\ RouteTarget(r1) # RouteTarget(r2)
     /\ (CallOn(routeBreaker[r2]) \/ SettleOn(routeBreaker[r2])))
      => breakers'[routeBreaker[r1]] = breakers[routeBreaker[r1]]
C7_IndependentBreakers == []C7_OnePerTarget /\ [][C7_Frame]_vars

C7_Witness ==
  /\ \A r \in Routes : routeBreaker[r] # 0
  /\ breakers[circuitBreakers["A"]].state = "OPEN"
  /\ breakers[circuitBreakers["B"]].failureCount = 1
  /\ ev.op = "plain" /\ ev.res = "failed" /\ ev.b = circuitBreakers["B"]

----------------------------------------------------------------------------
(* Properties of the token cache *)

Cached(tok) == tokenCache[tok] # NoEntry
Age(tok) == now - tokenCache[tok].timestamp
\* the step taken is a request carrying tok that the skipPaths test let in
RequestWith(tok) ==
  authEv'.op = "request" /\ authEv'.token = tok /\ authEv'.via # "skip"

\* C8: a request carrying a token cached at T is served from the cache, with
\* no verification and no auth-service call, when it arrives before
\* T + CACHE_TTL, and is verified again when it arrives at or after it.
C8_ServedFromCacheWithinTTL ==
  [][\A tok \in Tokens :
       (Cached(tok) /\ RequestWith(tok))
         => IF Age(tok) < CACHE_TTL
            THEN /\ authEv'.via = "cache" /\ authEv'.res = "next"
                 /\ ~authEv'.asked
                 /\ authEv'.user = tokenCache[tok].user
                 /\ UNCHANGED <<tokenCache, pendingAuth>>
            ELSE authEv'.via = "verify"]_vars

C8_Witness ==
  /\ authEv.op = "request" /\ authEv.via = "verify" /\ authEv.res = "await"
  /\ Cached(authEv.token) /\ Age(authEv.token) = CACHE_TTL

\* C9 as claimed: every entry of tokenCache has age at most CACHE_TTL.
C9_NoEntryOlderThanTTL ==
  \A tok \in Tokens : Cached(tok) => Age(tok) <= CACHE_TTL

\* C9 as amended: right after each sweep, every entry of tokenCache has age at
\* most CACHE_TTL.
C9_NoEntryOlderThanTTLAfterSweep ==
  authEv.op = "sweep" => \A tok \in Tokens : Cached(tok) => Age(tok) <= CACHE_TTL

C9_Witness ==
  /\ authEv.op = "sweep" /\ authEv.n = 1
  /\ \E tok \in Tokens : Cached(tok) /\ Age(tok) = CACHE_TTL

\* C10: when the auth service's answer is a failure other than 401, the
\* request goes on with the locally decoded claims (to the role check, the
\* cache and next()); when it is 401, the request is rejected with 401 and the
\* cache is not written.
C10_FallbackToLocalClaims ==
  [][\A tok \in Tokens :
       (authEv'.op = "answer" /\ authEv'.token = tok)
         => /\ authEv'.answer \in {"500", "network", "timeout"}
                => /\ authEv'.user = Decoded(tok)
                   /\ IF authEv'.roles = {} \/ hasRequiredRole(Decoded(tok), authEv'.roles)
                      THEN /\ authEv'.res = "next"
                           /\ tokenCache'[tok] = [user |-> Decoded(tok), timestamp |-> now]
                      ELSE authEv'.res = "403"
            /\ authEv'.answer = "401"
                => (authEv'.res = "401" /\ tokenCache' = tokenCache)]_vars

C10_Witness ==
  /\ authEv.op = "answer" /\ authEv.answer = "timeout" /\ authEv.res = "next"
  /\ authEv.user = Decoded(authEv.token)
  /\ tokenCache[authEv.token].user = Decoded(authEv.token)

\* C11: every request that carries a bearer token and is let through, from the
\* cache or after verification, has the identity headers set.
C11_IdentityHeadersSet ==
  (/\ authEv.op \in {"request", "answer"}
   /\ authEv.token # NoToken
   /\ authEv.via \in {"cache", "verify"}
   /\ authEv.res = "next")
    => authEv.headers

\* C12: a request bearing a correctly signed but expired token is rejected
\* with 401 and a message other than the one for a malformed or wrongly
\* signed token.
C12_ExpiredTokenDistinguished ==
  (/\ authEv.op = "request" /\ authEv.via = "verify" /\ authEv.res = "401"
   /\ JwtVerifyError(authEv.token, now) = "TokenExpiredError")
    => authEv.msg # JwtErrorMessage("JsonWebTokenError")

----------------------------------------------------------------------------
(* Routing and forwarding *)

\* the request is to neither "/" nor anything under "/health"
NotReserved(p) == p # RootPath /\ ~startsWith(toLowerCase(p), HealthPath)

NotFound == [status |-> 404, body |-> "Ruta no encontrada"]

\* route i's prefix is the start of p, letters compared without case, and p goes
\* on with "/" or ends there
PrefixAtBoundary(i, p) ==
  LET n == Len(routes[i].path) IN
    /\ Len(p) >= n
    /\ \A k \in 1..n : toLowerCase(p)[k] = toLowerCase(routes[i].path)[k]
    /\ (Len(p) > n => p[n + 1] = "/")

\* C13 as stated, a prefix matching as getRouteConfig tests it: the request is
\* handled by the first route whose path the request path starts with, and
\* by the 404 handler without an upstream call when there is none.
C13_FirstPrefixMatch ==
  (gwEv.op = "request" /\ NotReserved(gwEv.path)) =>
    IF getRouteConfig(gwEv.path) # 0
    THEN gwEv.handlers = <<getRouteConfig(gwEv.path)>>
    ELSE gwEv.sent = <<NotFound>> /\ gwEv.calls = <<>>

\* C13: a request is handled by exactly one route, the first in configuration
\* order whose prefix matches the path up to a "/" or its end (case ignored);
\* when no route matches so, it gets 404 and no upstream call is made.
C13_FirstMountMatch ==
  (gwEv.op = "request" /\ NotReserved(gwEv.path)) =>
    LET matching == {i \in 1..Len(routes) : PrefixAtBoundary(i, gwEv.path)} IN
      IF matching # {}
      THEN LET first == CHOOSE i \in matching : \A j \in matching : i <= j IN
             /\ gwEv.handlers = <<first>>
             /\ gwEv.calls = <<routes[first].target>>
      ELSE gwEv.sent = <<NotFound>> /\ gwEv.calls = <<>>

C13_Witness ==
  /\ gwEv.op = "request"
  /\ gwEv.handlers = <<2>>
  /\ Len(gwEv.path) > Len(routes[2].path)

----------------------------------------------------------------------------
(* Retries *)

Retryable(e) == ~e.response \/ e.status >= 500 \/ e.status \in {408, 429}

----------------------------------------------------------------------------
(* Health *)

\* C16: one upstream's check is 'up' for an answer below 400, 'degraded' for
\* one from 400 to 499, 'down' for one of 500 or more and for a failed or
\* timed-out call; the next check of an upstream that answers the same gives
\* the same classification.
C16_HealthClassification ==
  [][healthEv'.op \in {"aggregate", "service"} =>
       /\ \A i \in DOMAIN healthEv'.answers :
            LET a == healthEv'.answers[i]
                st == healthEv'.services[i]
            IN /\ (a.kind = "response" /\ a.status < 400) => st = "up"
               /\ (a.kind = "response" /\ a.status >= 400 /\ a.status < 500)
                    => st = "degraded"
               /\ (a.kind = "error" \/ a.status >= 500) => st = "down"
       /\ \A i \in DOMAIN healthEv'.answers \cap DOMAIN healthEv.answers :
            healthEv'.answers[i] = healthEv.answers[i]
              => healthEv'.services[i] = healthEv.services[i]]_vars

C16_Witness ==
  /\ healthEv.op = "aggregate"
  /\ healthEv.endpoint = "detailed"
  /\ healthEv.n = 0
  /\ healthEv.services = <<"up", "degraded", "down">>

\* C17: on both aggregate endpoints the overall status is 'healthy' with 200
\* exactly when all services are up, 'unhealthy' with 503 exactly when all
\* are down, 'degraded' with 207 in every other case.
C17_AggregateRollUp ==
  healthEv.op = "aggregate" =>
    LET sv == healthEv.services
        allUp == \A i \in DOMAIN sv : sv[i] = "up"
        allDown == \A i \in DOMAIN sv : sv[i] = "down"
    IN /\ (healthEv.status = "healthy" /\ healthEv.code = 200) <=> allUp
       /\ (healthEv.status = "unhealthy" /\ healthEv.code = 503) <=> allDown
       /\ (healthEv.status = "degraded" /\ healthEv.code = 207)
            <=> (~allUp /\ ~allDown)

----------------------------------------------------------------------------
(* The auth service *)

\* C18: the fifth wrong-password answer in a row locks the account for 2 hours;
\* a POST /login arriving while the account is locked is answered 423, issues
\* no token and leaves loginAttempts and lockUntil as they are; a successful
\* login clears both.
C18_LockoutAfterFiveFailures ==
  [][LET u == svcEv'.u IN
       /\ (/\ svcEv'.op = "loginSettle" /\ Len(pendingLogin') < Len(pendingLogin)
           /\ svcEv'.status = 401 /\ failed'[u] = MaxLoginAttempts)
            => users'[u].lockUntil = now + LockTime
       /\ (/\ svcEv'.op = "login" /\ authLimiter' # authLimiter
           /\ users[u].exists /\ users[u].isActive /\ isLocked(users[u], now))
            => (svcEv'.status = 423 /\ ~svcEv'.issued /\ users' = users)
       /\ (/\ svcEv'.op = "loginSettle" /\ Len(pendingLogin') < Len(pendingLogin)
           /\ svcEv'.status = 200)
            => (users'[u].loginAttempts = 0 /\ users'[u].lockUntil = Null)]_vars

\* C19: POST /refresh issues an access token only for a refresh token in the
\* stored list of an active user, and answers 401 to every refresh token that
\* a logout, a logout-all, a password change or a deactivation has revoked.
C19_RevokedRefreshRejected ==
  [][svcEv'.op = "refresh" =>
       LET tok == svcEv'.token IN
         /\ svcEv'.status = 200
              => (/\ users[tok.u].exists /\ users[tok.u].isActive
                  /\ tok.iat \in users[tok.u].refreshTokens)
         /\ tok \in revoked => svcEv'.status = 401]_vars

\* C20: a registration whose usuario or email is taken is answered 409 and
\* creates no user, at the existence check and, for one that passed the check,
\* at its save; a registration whose save finds both free is answered 201.
C20_DuplicateRegisterConflict ==
  [][/\ svcEv'.op = "register" /\ svcEv'.status # 0
          => (svcEv'.status = 409 /\ users' = users)
     /\ svcEv'.op = "registerSave" /\ pendingRegister' # pendingRegister
          => \E k \in RegisterInputs :
               /\ pendingRegister'[k] < pendingRegister[k]
               /\ IF Existing(k[1], k[2])
                  THEN svcEv'.status = 409 /\ users' = users
                  ELSE svcEv'.status = 201 /\ users'[k[1]].exists]_vars

\* C21: a deletion or deactivation keeps the user record, sets isActive false
\* and empties refreshTokens; as long as the account is inactive every login,
\* every request bearing an access token issued before and every refresh for
\* that user is answered 401.
C21_DeactivatedRejected ==
  [][LET u == svcEv'.u IN
       /\ (svcEv'.op = "setActive" /\ ~users'[u].isActive)
            => (users'[u].exists /\ users'[u].refreshTokens = {})
       /\ (/\ u \in UserNames /\ users[u].exists /\ ~users[u].isActive
           /\ svcEv'.op \in {"login", "loginSettle", "me", "refresh"}
           /\ svcEv'.status # 0)
            => svcEv'.status = 401]_vars

\* C22: an administration endpoint is served (answered anything but 401 or
\* 403) only for a requester authenticated as a user whose role is
\* administrator; a request from anyone else is answered 401 or 403 and leaves
\* every user record unchanged.
IsAdmin(a) == a \in UserNames /\ users[a].exists /\ users[a].rol = "administrador"

C22_AdminOnly ==
  [][svcEv'.op \in AdminOps =>
       /\ (svcEv'.status \notin {401, 403}) => IsAdmin(svcEv'.u)
       /\ (~IsAdmin(svcEv'.u)) => (svcEv'.status \in {401, 403} /\ users' = users)]_vars

\* C22 as amended: the rejection of a requester whose account is locked is 423
C22_AdminOnlyOrLocked ==
  [][(svcEv'.op \in AdminOps /\ ~IsAdmin(svcEv'.u))
        => (svcEv'.status \in {401, 403, 423} /\ users' = users)]_vars

C22_Witness ==
  /\ svcEv.op = "adminStatus"
  /\ svcEv.u = "alice"
  /\ users["alice"].rol = "usuario"
  /\ svcEv.status = 403

\* the constructor's timeout, the 60 seconds of the documentation; call() never
\* reads it
Timeout == 60000

\* C23: a call on an open breaker made less than 60 seconds after the last
\* recorded failure is rejected without reaching the upstream.
C23_OpenForSixtySeconds ==
  [][\A b \in Breakers :
       (breakers[b].state = "OPEN" /\ Elapsed(b) < Timeout /\ CallOn(b))
         => (ev'.res = "rejected" /\ inflight' = inflight)]_vars

\* C25: executeWithRetry makes at most retries + 1 calls; a failed call is
\* followed by a wait of baseDelay before the first retry and of twice the
\* previous wait before each later one; a success returns and a non-retryable
\* error or the failure of call retries + 1 is rethrown, with no further call.
C25_CallsBounded ==
  /\ retryEv.calls <= retryEv.retries + 1
  /\ retryEv.state = "waiting" => retryEv.calls <= retryEv.retries
C25_Steps ==
  retryEv.state = "calling" /\ retryEv'.state # "calling" =>
    LET e == retryEv'.last IN
      /\ retryEv'.calls = retryEv.calls
      /\ e.ok <=> retryEv'.state = "returned"
      /\ (~e.ok /\ (~Retryable(e) \/ retryEv.calls = retryEv.retries + 1))
           => retryEv'.state = "thrown"
      /\ (~e.ok /\ Retryable(e) /\ retryEv.calls <= retryEv.retries)
           => /\ retryEv'.state = "waiting"
              /\ retryEv'.delay = IF retryEv.calls = 1 THEN baseDelay
                                  ELSE 2 * retryEv.delay
C25_BoundedRetries == []C25_CallsBounded /\ [][C25_Steps]_vars

C25_Witness ==
  /\ retryEv.state = "waiting"
  /\ retryEv.retries = 3
  /\ retryEv.calls = 3
  /\ retryEv.delay = 4000

\* C26: a request let through by a middleware configured with a non-empty
\* roles list belongs to a user who holds one of those roles, on every path
\* through the middleware, a hit in the token cache included.
C26_RolesEnforced ==
  (/\ authEv.op \in {"request", "answer"}
   /\ authEv.roles # {}
   /\ authEv.res = "next")
    => authEv.user.roles \cap authEv.roles # {}

\* C27: in every interleaving of concurrent failed logins of one user, the
\* update that brings the stored loginAttempts to 5 or more leaves the stored
\* lockUntil set to a time in the future.
C27_LockedWhenCountReachesFive ==
  [][\A u \in UserNames :
       (users[u].loginAttempts < MaxLoginAttempts
          /\ users'[u].loginAttempts >= MaxLoginAttempts)
         => (users'[u].lockUntil # Null /\ users'[u].lockUntil > now')]_vars

\* C29: in every reachable state of a breaker, whatever calls overlap, state is
\* OPEN or HALF_OPEN only with failureCount >= threshold and a lastFailureTime,
\* and CLOSED never goes with failureCount >= threshold.
C29_StateMatchesCount ==
  \A b \in Breakers :
    /\ breakers[b].state \in {"OPEN", "HALF_OPEN"}
         => (breakers[b].failureCount >= Threshold /\ breakers[b].lastFailureTime # Null)
    /\ ~(breakers[b].state = "CLOSED" /\ breakers[b].failureCount >= Threshold)

C29_Witness ==
  \E b \in Breakers :
    /\ breakers[b].state = "HALF_OPEN"
    /\ breakers[b].failureCount > Threshold
    /\ inflight[b].plain + inflight[b].trial >= 2

----------------------------------------------------------------------------
(* Notification server *)

\* C24: the history holds at most 10 entries, the most recent accepted
\* notifications in arrival order; a POST /notify-update without a version is
\* answered 400, leaves the history unchanged and emits no event; a newly
\* connected client is sent the last 5 entries.
C24_HistoryIsLastTen ==
  LET h == deploymentHistory
      n == Len(accepted)
  IN /\ Len(h) <= 10
     /\ Len(h) = IF n < 10 THEN n ELSE 10
     /\ \A i \in 1..Len(h) : h[i] = accepted[n - Len(h) + i]
C24_Steps ==
  /\ (notifyEv'.op = "notify" /\ notifyEv'.version \in {"", "undefined"})
       => /\ notifyEv'.status = 400
          /\ deploymentHistory' = deploymentHistory
          /\ notifyEv'.emitted = <<>>
  /\ connectedClients' = connectedClients + 1
       => LET h == deploymentHistory
              sent == notifyEv'.sent
          IN /\ Len(sent) = IF Len(h) < 5 THEN Len(h) ELSE 5
             /\ \A i \in 1..Len(sent) : sent[i] = h[Len(h) - Len(sent) + i]
C24_HistoryBounded == []C24_HistoryIsLastTen /\ [][C24_Steps]_vars

C24_Witness ==
  /\ notifyEv.op = "connect"
  /\ Len(notifyEv.sent) = 5
  /\ Len(accepted) > Len(deploymentHistory)

----------------------------------------------------------------------------
(* The refreshTokens array *)

\* the stored tokens are the last of those issued and not revoked since
StoredAreLatestLive ==
  LET n == Len(refreshTokens) IN
    /\ n <= Len(live)
    /\ \A i \in 1..n : refreshTokens[i].token = live[Len(live) - n + i]

\* the tokens issued after the last issue of token a
LaterIssued(a) ==
  {i \in 1..Len(issued) : \A j \in 1..Len(issued) : issued[j] = a => j < i}

\* the stored tokens signed in a later second than token a
LaterStored(a) == {i \in 1..Len(refreshTokens) : refreshTokens[i].token > a}

\* C28: the array holds at most 5 tokens, the most recently issued ones that
\* have not been revoked, and a refresh with a token after which 5 more have
\* been issued is answered 401.
C28_Stored == Len(refreshTokens) <= 5 /\ StoredAreLatestLive
C28_FiveLaterIssuedStep ==
  (tokenEv'.op = "refresh" /\ Cardinality(LaterIssued(tokenEv'.token)) >= 5)
    => tokenEv'.status = 401
C28_FiveLaterIssued == []C28_Stored /\ [][C28_FiveLaterIssuedStep]_vars

\* C28 as amended: the array holds at most 5 tokens, the most recently issued
\* ones that have not been revoked since, and a refresh with a token is answered
\* 401 once 5 tokens signed in later seconds are stored.
C28_FiveLaterStoredStep ==
  (tokenEv'.op = "refresh" /\ Cardinality(LaterStored(tokenEv'.token)) >= 5)
    => tokenEv'.status = 401
C28_FiveLaterStored == []C28_Stored /\ [][C28_FiveLaterStoredStep]_vars

C28_Witness ==
  /\ tokenEv.op = "refresh" /\ tokenEv.status = 401
  /\ Seconds(now) < tokenEv.token + RefreshTtl
  /\ Cardinality(LaterStored(tokenEv.token)) = 5

----------------------------------------------------------------------------
(* Proxy callbacks *)

\* C30: whatever the order of the response, error and timeout callbacks of one
\* proxied request, at most one status line is written to the client: the
\* error that follows the 504 and destroy() of the timeout handler sends no
\* 502, and no 502 or 504 is sent once the upstream's headers have gone out.
C30_OneStatus == \A i \in DOMAIN proxyCall : Len(proxyCall[i].written) <= 1
C30_NoSecondAnswer ==
  \A i \in DOMAIN proxyCall :
    (proxyCall[i].proxy \in Proxies /\ proxyCall'[i].last # "start"
       /\ proxyCall[i].headersSent)
      => proxyCall'[i].written = proxyCall[i].written
C30_SingleResponse == []C30_OneStatus /\ [][C30_NoSecondAnswer]_vars

C30_Witness ==
  \E i \in DOMAIN proxyCall :
    /\ proxyCall[i].last = "error"
    /\ proxyCall[i].destroyed
    /\ proxyCall[i].responded
    /\ proxyCall[i].written = <<504>>
====
